---- MODULE Spec2Model ----
(***************************************************************************)
(* Polynomial curve segments (packages/2d/src/curves/PolynomialSegment.ts) *)
(* and the two curve-owning components (CubicBezier.ts, QuadBezier).       *)
(*                                                                         *)
(* Numbers are exact rationals <<n, d>> extended with the three IEEE       *)
(* specials a JavaScript division by zero produces: <<1,0>> = +Infinity,   *)
(* <<-1,0>> = -Infinity and <<0,0>> = NaN.  Rounding is not modelled.      *)
(* Control points lie on a horizontal or a vertical line, so that every    *)
(* Euclidean length the sampler takes is rational.                         *)
(***************************************************************************)
EXTENDS Integers, Sequences, FiniteSets, TLC

\* ------------------------------------------------------------------ bounds
\* Number of samples of the sampler's lookup table (the resolution N).
SampleCount == 3
\* Number of split calls of the caller, who keeps both halves of each.
MaxSplits == 1
\* Number of segments the components may construct in one behaviour.
MaxComponentSegs == 4

\* ---------------------------------------------------------------- numbers
Abs(n) == IF n < 0 THEN -n ELSE n
Sgn(n) == IF n < 0 THEN -1 ELSE IF n > 0 THEN 1 ELSE 0

RECURSIVE GCD(_, _)
GCD(a, b) == IF b = 0 THEN a ELSE GCD(b, a % b)

\* The canonical form of n/d: lowest terms, d >= 0; d = 0 is a special.
Norm(n, d) ==
  IF d = 0 THEN <<Sgn(n), 0>>
  ELSE LET g == GCD(Abs(n), Abs(d))
       IN  <<(Sgn(d) * n) \div g, Abs(d) \div g>>

R(n, d) == Norm(n, d)
Zero == <<0, 1>>
One == <<1, 1>>
NaN == <<0, 0>>
IsNaN(a) == a = NaN
IsFinite(a) == a[2] # 0

\* Sums and products reduce by common factors first, to keep the integers small.
Add(a, b) ==
  IF a[2] = 0 /\ b[2] = 0
    THEN (IF a = b THEN a ELSE NaN)      \* Inf + Inf = Inf, Inf - Inf = NaN
    ELSE IF a[2] = 0 THEN a
    ELSE IF b[2] = 0 THEN b
    ELSE LET g == GCD(a[2], b[2])
         IN  Norm(a[1] * (b[2] \div g) + b[1] * (a[2] \div g), (a[2] \div g) * b[2])
Neg(a) == <<-a[1], a[2]>>
Sub(a, b) == Add(a, Neg(b))
Mul(a, b) ==
  IF a[2] = 0 \/ b[2] = 0 THEN Norm(a[1] * b[1], 0)
  ELSE LET g == GCD(Abs(a[1]), b[2])
           h == GCD(Abs(b[1]), a[2])
       IN  Norm((a[1] \div g) * (b[1] \div h), (a[2] \div h) * (b[2] \div g))
\* JavaScript's a / b: x/0 is +-Infinity, 0/0 is NaN, x/Infinity is 0.
Div(a, b) ==
  IF b[1] = 0 THEN Norm(a[1] * b[2], 0)
  ELSE Mul(a, << Sgn(b[1]) * b[2], Abs(b[1]) >>)
AbsR(a) == <<Abs(a[1]), a[2]>>

\* Comparisons are false as soon as one side is NaN, as in JavaScript.
Leq(a, b) ==
  /\ ~IsNaN(a) /\ ~IsNaN(b)
  /\ IF a[2] = 0 /\ b[2] = 0 THEN a[1] <= b[1]
     ELSE IF a[2] = 0 THEN a[1] < 0
     ELSE IF b[2] = 0 THEN b[1] > 0
     ELSE LET g == GCD(a[2], b[2])
          IN  a[1] * (b[2] \div g) <= b[1] * (a[2] \div g)
Less(a, b) == Leq(a, b) /\ a # b
InUnit(a) == Leq(Zero, a) /\ Leq(a, One)

\* ---------------------------------------------------------------- vectors
Vec(x, y) == [x |-> x, y |-> y]
VAdd(p, q) == Vec(Add(p.x, q.x), Add(p.y, q.y))
VSub(p, q) == Vec(Sub(p.x, q.x), Sub(p.y, q.y))
VScale(p, k) == Vec(Mul(p.x, k), Mul(p.y, k))
VLerp(p, q, t) == VAdd(p, VScale(VSub(q, p), t))

\* The square root of a rational that is a perfect square (no other is taken:
\* the curves of this model are axis-parallel).
ExactSqrt(a) ==
  LET rn == CHOOSE r \in 0..a[1] : r * r = a[1]
      rd == CHOOSE r \in 0..a[2] : r * r = a[2]
  IN  R(rn, rd)

\* Vector2.magnitude: sqrt(x^2 + y^2).
Magnitude(v) ==
  IF IsNaN(v.x) \/ IsNaN(v.y) THEN NaN
  ELSE IF ~IsFinite(v.x) \/ ~IsFinite(v.y) THEN <<1, 0>>
  ELSE IF v.y = Zero THEN AbsR(v.x)
  ELSE IF v.x = Zero THEN AbsR(v.y)
  ELSE ExactSqrt(Add(Mul(v.x, v.x), Mul(v.y, v.y)))

\* Vector2.normalized: the vector scaled by 1 / magnitude (NaN for the zero vector).
Normalized(v) == VScale(v, Div(One, Magnitude(v)))

\* A DOMMatrix [a, b, c, d, e, f] applied to a point (Vector2.transformAsPoint).
transformAsPoint(p, m) ==
  Vec(Add(Add(Mul(m.a, p.x), Mul(m.c, p.y)), m.e),
      Add(Add(Mul(m.b, p.x), Mul(m.d, p.y)), m.f))

\* ------------------------------------------------------------ Polynomial2D
\* The power-basis coefficients of the Bezier curve of 3 or 4 control points.
Polynomial2D(p) ==
  IF Len(p) = 3
    THEN << p[1],
            VScale(VSub(p[2], p[1]), R(2, 1)),
            VAdd(VSub(p[1], VScale(p[2], R(2, 1))), p[3]) >>
    ELSE << p[1],
            VScale(VSub(p[2], p[1]), R(3, 1)),
            VScale(VAdd(VSub(p[1], VScale(p[2], R(2, 1))), p[3]), R(3, 1)),
            VAdd(VSub(p[4], VScale(p[3], R(3, 1))),
                 VSub(VScale(p[2], R(3, 1)), p[1])) >>

\* Horner's rule on the coefficients c[k], c[k+1], ...
RECURSIVE horner(_, _, _)
horner(c, k, t) ==
  IF k = Len(c) THEN c[k] ELSE VAdd(c[k], VScale(horner(c, k + 1, t), t))

\* Polynomial2D.eval: c0 + c1 t + c2 t^2 (+ c3 t^3), for any t (no range check).
curveEval(c, t) == horner(c, 1, t)

\* The coefficients of the derivative: c1, 2 c2 (, 3 c3).
derivative(c) == [k \in 1..(Len(c) - 1) |-> VScale(c[k + 1], R(k, 1))]

\* Polynomial2D.evalDerivative: c1 + 2 c2 t (+ 3 c3 t^2), not normalized.
evalDerivative(c, t) == horner(derivative(c), 1, t)

\* ------------------------------------------ UniformPolynomialCurveSampler
NoSampler == [none |-> TRUE]

\* new UniformPolynomialCurveSampler(segment): the sampler of one curve.
UniformPolynomialCurveSampler(curve) == [curve |-> curve]

sampleT(i) == R(i, SampleCount - 1)

\* The positions of the SampleCount samples, uniform in t.
samplePositions(c) == [i \in 0..(SampleCount - 1) |-> curveEval(c, sampleT(i))]

\* The cumulative chord distance of sample i.
RECURSIVE distanceAt(_, _)
distanceAt(pos, i) ==
  IF i = 0 THEN Zero
  ELSE Add(distanceAt(pos, i - 1), Magnitude(VSub(pos[i], pos[i - 1])))

\* The lookup table: each sample with its parameter, its cumulative chord
\* distance, its position and its tangent.
tableRows(c, pos) ==
  [i \in 0..(SampleCount - 1) |->
     [t |-> sampleT(i), distance |-> distanceAt(pos, i), position |-> pos[i],
      tangent |-> Normalized(evalDerivative(c, sampleT(i)))]]

sampleTable(c) == tableRows(c, samplePositions(c))

\* The arc length of a curve, computed by sampling: the last sample's distance.
sampledLength(c) == distanceAt(samplePositions(c), SampleCount - 1)

\* The first pair of samples whose distances bracket d (0 < d < length).
bracket(table, d) ==
  CHOOSE i \in 0..(SampleCount - 2) :
    /\ Leq(d, table[i + 1].distance)
    /\ \A j \in 0..(i - 1) : ~Leq(d, table[j + 1].distance)

\* Where d falls between the two samples of bracket i, in [0, 1].
bracketFraction(table, i, d) ==
  Div(Sub(d, table[i].distance), Sub(table[i + 1].distance, table[i].distance))

interpolateT(table, i, d) ==
  Add(table[i].t, Mul(bracketFraction(table, i, d), Sub(table[i + 1].t, table[i].t)))

lookupT(table, d) ==
  IF Leq(d, Zero) THEN Zero
  ELSE IF Leq(table[SampleCount - 1].distance, d) THEN One
  ELSE interpolateT(table, bracket(table, d), d)

\* sampler.distanceToT: d outside [0, length] clamps to 0 or 1.
distanceToT(s, d) == lookupT(sampleTable(s.curve), d)

lerpRows(a, b, f) ==
  [position |-> VLerp(a.position, b.position, f),
   tangent |-> VLerp(a.tangent, b.tangent, f)]

rowPoint(row) == [position |-> row.position, tangent |-> row.tangent]

lookupPoint(table, d) ==
  IF Leq(d, Zero) THEN rowPoint(table[0])
  ELSE IF Leq(table[SampleCount - 1].distance, d) THEN rowPoint(table[SampleCount - 1])
  ELSE lerpRows(table[bracket(table, d)], table[bracket(table, d) + 1],
                bracketFraction(table, bracket(table, d), d))

\* sampler.pointAtDistance: position and tangent interpolated between samples.
pointAtDistance(s, d) == lookupPoint(sampleTable(s.curve), d)

\* ------------------------------------------------------- PolynomialSegment
\* A constructor that leaves the sampler to the first distance-based query.
PolynomialSegmentLazy(points, curve, length) ==
  [points |-> points, curve |-> curve, length |-> length, pointSampler |-> NoSampler]

\* The base constructor: the curve, the length and a sampler of its own.
PolynomialSegment(points, curve, length) ==
  [points |-> points, curve |-> curve, length |-> length,
   pointSampler |-> UniformPolynomialCurveSampler(curve)]

segmentOfCurve(points, curve) == PolynomialSegment(points, curve, sampledLength(curve))

\* new QuadBezierSegment(p0, p1, p2) / new CubicBezierSegment(p0, p1, p2, p3).
BezierSegment(points) == segmentOfCurve(points, Polynomial2D(points))

arcLength(this) == this.length

tangent(this, t) == Normalized(evalDerivative(this.curve, t))

eval(this, t) == [position |-> curveEval(this.curve, t), tangent |-> tangent(this, t)]

\* One level of de Casteljau's scheme: the points between neighbours at t.
casteljauLevel(q, t) == [k \in 1..(Len(q) - 1) |-> VLerp(q[k], q[k + 1], t)]

\* All levels, from the control points down to the single point on the curve.
RECURSIVE casteljau(_, _)
casteljau(q, t) ==
  IF Len(q) = 1 THEN << q >> ELSE << q >> \o casteljau(casteljauLevel(q, t), t)

\* The first points of the levels, and the last points in reverse.
casteljauHalves(levels) ==
  << [k \in 1..Len(levels) |-> levels[k][1]],
     [k \in 1..Len(levels) |-> levels[Len(levels) + 1 - k][k]] >>

\* The halves taken at 1 - t, as with the weights of the interpolation swapped.
splitPointsSwapped(p, t) == casteljauHalves(casteljau(p, Sub(One, t)))

\* The control points of the two halves (de Casteljau).
splitPoints(p, t) == casteljauHalves(casteljau(p, t))

splitHalves(halves) == [k \in 1..2 |-> BezierSegment(halves[k])]

\* split(t): two new segments, each with a length of its own.
split(this, t) == splitHalves(splitPoints(this.points, t))

curvePoint(closestPoint) ==
  [position |-> closestPoint.position, tangent |-> closestPoint.tangent]

\* getPoint that hands the fraction to the sampler as if it were a distance.
getPointUnscaled(this, distance) ==
  curvePoint(pointAtDistance(this.pointSampler, distance))

getPoint(this, distance) ==
  curvePoint(pointAtDistance(this.pointSampler, Mul(arcLength(this), distance)))

\* transformPoints that applies the matrix as to a direction (no translation).
transformPointsAsVector(this, matrix) ==
  [k \in 1..Len(this.points) |->
     transformAsPoint(this.points[k], [matrix EXCEPT !.e = Zero, !.f = Zero])]

transformPoints(this, matrix) ==
  [k \in 1..Len(this.points) |-> transformAsPoint(this.points[k], matrix)]

\* The test with the end compared to 0 instead of 1.
needsTrimEndZero(start, end) == start # Zero \/ end # Zero

\* The test of draw that decides between the full curve and a trimmed one.
needsTrim(start, end) == start # Zero \/ end # One

\* The end parameter rescaled to the back half of the first split.
relativeEndT(startT, endT) == Div(Sub(endT, startT), Sub(One, startT))

\* A move-to that ignores the flag.
moveOpsAlways(move, points) == << [op |-> "moveTo", p |-> points[1]] >>

\* moveTo(context, points[0]) when move is set.
moveOps(move, points) ==
  IF move THEN << [op |-> "moveTo", p |-> points[1]] >> ELSE << >>

\* segment.doDraw(context): the segment emits its own geometry.
doDraw(segment) == << [op |-> "doDraw", points |-> segment.points] >>

\* The tuple draw returns; endT is the value the variable holds at the return.
drawResult(this, points, startT, endT) ==
  << points[1], tangent(this, startT), points[Len(points)], tangent(this, endT) >>

\* The end of draw, from the move-to on: what it returns, the calls it made
\* in order (trace) and the segments it constructed on the way (created).
drawCurve(this, queries, startT, endT, first, second, move) ==
  [result |-> drawResult(this, second[1].points, startT, endT),
   trace |-> queries
             \o << [op |-> "split", points |-> this.points, t |-> startT],
                   [op |-> "split", points |-> first[2].points, t |-> endT] >>
             \o moveOps(move, second[1].points) \o doDraw(second[1]),
   created |-> first \o second]

\* The two splits: the receiver at startT, its back half at endT.
drawSplit(this, queries, startT, endT, first, move) ==
  drawCurve(this, queries, startT, endT, first, split(first[2], endT), move)

\* endT is overwritten with the rescaled parameter before the first split.
drawBetween(this, queries, startT, endT, move) ==
  drawSplit(this, queries, startT, relativeEndT(startT, endT),
            split(this, startT), move)

\* The trimmed branch: the two distances are turned into parameters.
drawTrimmed(this, startDistance, endDistance, move) ==
  drawBetween(this,
              << [op |-> "distanceToT", sampler |-> this.pointSampler,
                  d |-> startDistance],
                 [op |-> "distanceToT", sampler |-> this.pointSampler,
                  d |-> endDistance] >>,
              distanceToT(this.pointSampler, startDistance),
              distanceToT(this.pointSampler, endDistance), move)

\* draw(context, start, end, move).
draw(this, start, end, move) ==
  IF needsTrim(start, end)
    THEN drawTrimmed(this, Mul(this.length, start), Mul(this.length, end), move)
    ELSE [result |-> drawResult(this, this.points, start, end),
          trace |-> moveOps(move, this.points) \o doDraw(this),
          created |-> << >>]

\* ------------------------------------------------------------------ inputs
P(x, y) == Vec(R(x, 1), R(y, 1))

\* The control points a segment is constructed from: three or four points
\* on one axis-parallel line, straight, folding back, or all coincident.
Configs ==
  { << P(0, 0), P(4, 0), P(8, 0) >>,
    << P(0, 0), P(6, 0), P(-4, 0) >>,
    << P(1, 0), P(1, 8), P(1, 0) >>,
    << P(1, 1), P(1, 1), P(1, 1) >>,
    << P(0, 0), P(3, 0), P(6, 0), P(9, 0) >>,
    << P(0, 2), P(6, 2), P(6, 2), P(0, 2) >> }

\* Curve parameters handed to eval and tangent.
Params == { R(0, 1), R(1, 4), R(1, 2), R(3, 4), R(1, 1) }

\* Curve parameters at which the caller splits: an end and two inner ones.
SplitParams == { R(0, 1), R(1, 4), R(1, 2) }

\* Distance fractions handed to getPoint, two of them out of range.
Fractions == { R(-1, 2), R(0, 1), R(1, 4), R(1, 2), R(3, 4), R(1, 1), R(3, 2) }

\* The (start, end) ranges handed to draw: the full range, proper ranges,
\* empty ranges at both ends and inside, start > end, and out-of-range ends.
DrawRanges ==
  { << R(0, 1), R(1, 1) >>, << R(0, 1), R(1, 2) >>, << R(1, 2), R(1, 1) >>,
    << R(1, 4), R(3, 4) >>, << R(1, 2), R(3, 4) >>, << R(1, 4), R(1, 2) >>,
    << R(0, 1), R(0, 1) >>, << R(1, 1), R(1, 1) >>, << R(1, 2), R(1, 2) >>,
    << R(3, 4), R(1, 4) >>, << R(-1, 2), R(1, 2) >>, << R(1, 2), R(3, 2) >>,
    << R(1, 1), R(3, 2) >>, << R(0, 1), R(3, 2) >>, << R(-1, 2), R(1, 1) >> }

Mat(a, b, c, d, e, f) ==
  [a |-> R(a, 1), b |-> R(b, 1), c |-> R(c, 1), d |-> R(d, 1), e |-> R(e, 1), f |-> R(f, 1)]

\* The identity, a scaling with a translation, and a quarter turn.
Matrices == { Mat(1, 0, 0, 1, 0, 0), Mat(2, 0, 0, 3, 1, -1), Mat(0, 1, -1, 0, 0, 0) }

\* ------------------------------------------------------------------- state
VARIABLES
  heap,      \* the segments a caller holds, in the order they were constructed
  lastCall,  \* the call that just returned: receiver, arguments, result, the
             \* calls it made in order, the segments it built; idle in between
  bezier,    \* per component: its points, its caches, the segment it last returned
  allocated, \* the number of segments the components have constructed
  compCall   \* the last call of a component, with its result

segVars == << heap, lastCall >>
compVars == << bezier, allocated, compCall >>
vars == << heap, lastCall, bezier, allocated, compCall >>

Call(op, this, args, result, trace, created) ==
  [op |-> op, this |-> this, args |-> args, result |-> result,
   trace |-> trace, created |-> created]

Idle == Call("idle", 0, << >>, << >>, << >>, << >>)

\* new ...BezierSegment(points): the caller holds the segment.
Constructed(points, segment) ==
  /\ heap = << segment >>
  /\ lastCall = Call("new", 1, << points >>, << >>, << >>, << segment >>)

SegInit == \E points \in Configs : Constructed(points, BezierSegment(points))

\* The caller takes the result; the next call may start.
Return ==
  /\ lastCall.op # "idle"
  /\ lastCall' = Idle
  /\ UNCHANGED << heap, compVars >>

CallArcLength(i) ==
  /\ lastCall.op = "idle"
  /\ lastCall' = Call("arcLength", i, << >>, arcLength(heap[i]), << >>, << >>)
  /\ UNCHANGED << heap, compVars >>

CallEval(i, t) ==
  /\ lastCall.op = "idle"
  /\ lastCall' = Call("eval", i, << t >>, eval(heap[i], t), << >>, << >>)
  /\ UNCHANGED << heap, compVars >>

CallTangent(i, t) ==
  /\ lastCall.op = "idle"
  /\ lastCall' = Call("tangent", i, << t >>, tangent(heap[i], t), << >>, << >>)
  /\ UNCHANGED << heap, compVars >>

CallGetPoint(i, distance) ==
  /\ lastCall.op = "idle"
  /\ lastCall' = Call("getPoint", i, << distance >>, getPoint(heap[i], distance),
                      << [op |-> "pointAtDistance", sampler |-> heap[i].pointSampler,
                          d |-> Mul(arcLength(heap[i]), distance)] >>,
                      << >>)
  /\ UNCHANGED << heap, compVars >>

CallTransformPoints(i, matrix) ==
  /\ lastCall.op = "idle"
  /\ lastCall' = Call("transformPoints", i, << matrix >>,
                      transformPoints(heap[i], matrix), << >>, << >>)
  /\ UNCHANGED << heap, compVars >>

\* The caller keeps both halves.
KeepHalves(i, t, halves) ==
  /\ heap' = heap \o halves
  /\ lastCall' = Call("split", i, << t >>, halves, << >>, halves)

CallSplit(i, t) ==
  /\ lastCall.op = "idle"
  /\ Len(heap) < 1 + 2 * MaxSplits
  /\ KeepHalves(i, t, split(heap[i], t))
  /\ UNCHANGED compVars

\* draw is called on the segment constructed from the control points.  The
\* segments draw constructs are not returned: they stay in lastCall only.
Drawn(i, args, d) ==
  lastCall' = Call("draw", i, args, d.result, d.trace, d.created)

CallDraw(i, start, end, move) ==
  /\ lastCall.op = "idle"
  /\ Drawn(i, << start, end, move >>, draw(heap[i], start, end, move))
  /\ UNCHANGED << heap, compVars >>

\* ------------------------------------------------- CubicBezier, QuadBezier
Comps == { "CubicBezier", "QuadBezier" }
arity(c) == IF c = "CubicBezier" THEN 4 ELSE 3

NoCache == [valid |-> FALSE, value |-> << >>]
Cached(v) == [valid |-> TRUE, value |-> v]

\* @computed(): the method runs when nothing is cached, and its arguments are
\* read only then; the cache is dropped when a signal the method read changes.
computed(cache, fresh) == IF cache.valid THEN cache.value ELSE fresh

\* new CubicBezierSegment(...) / new QuadBezierSegment(...): an object of its own.
newSegment(this, id) == [id |-> id, segment |-> BezierSegment(this.points)]

\* CubicBezier.segment(), decorated with @computed().
CubicBezier_segment(this, id) == computed(this.segmentCache, newSegment(this, id))

\* QuadBezier.segment(), not decorated.
QuadBezier_segment(this, id) == newSegment(this, id)

pathOp(op, args) == [op |-> op, args |-> args]

\* The overlay of a cubic curve from its four transformed points.
cubicOverlay(p) ==
  [curve |-> << pathOp("moveTo", << p[1] >>),
                pathOp("bezierCurveTo", << p[2], p[3], p[4] >>) >>,
   startPoint |-> p[1], endPoint |-> p[4], controlPoints |-> << p[2], p[3] >>,
   handleLines |-> << pathOp("moveTo", << p[1] >>), pathOp("lineTo", << p[2] >>),
                      pathOp("moveTo", << p[3] >>), pathOp("lineTo", << p[4] >>) >>]

\* The overlay of a quadratic curve from its three transformed points.
quadOverlay(p) ==
  [curve |-> << pathOp("moveTo", << p[1] >>),
                pathOp("quadraticCurveTo", << p[2], p[3] >>) >>,
   startPoint |-> p[1], endPoint |-> p[3], controlPoints |-> << p[2] >>,
   handleLines |-> << pathOp("moveTo", << p[1] >>), pathOp("lineTo", << p[2] >>),
                      pathOp("lineTo", << p[3] >>) >>]

\* CubicBezier.overlayInfo(matrix), not decorated.
CubicBezier_overlayInfo(this, matrix, id) ==
  cubicOverlay(transformPoints(CubicBezier_segment(this, id).segment, matrix))

\* QuadBezier.overlayInfo(matrix), decorated with @computed().
QuadBezier_overlayInfo(this, matrix, id) ==
  computed(this.overlayCache,
           quadOverlay(transformPoints(QuadBezier_segment(this, id).segment, matrix)))

Component(points) ==
  [points |-> points, segmentCache |-> NoCache, overlayCache |-> NoCache,
   lastSegment |-> 0]

CompCall(comp, op, matrix, result, prev) ==
  [comp |-> comp, op |-> op, matrix |-> matrix, result |-> result, prev |-> prev]

BezierInit ==
  /\ bezier \in [Comps -> {Component(p) : p \in Configs}]
  /\ \A c \in Comps : Len(bezier[c].points) = arity(c)
  /\ allocated = 0
  /\ compCall = CompCall("CubicBezier", "idle", << >>, << >>, 0)

\* The control points of a component change: its caches are dropped.
SetPoints(c, points) ==
  /\ Len(points) = arity(c)
  /\ points # bezier[c].points
  /\ bezier' = [bezier EXCEPT ![c] = Component(points)]
  /\ compCall' = CompCall(c, "setPoints", << >>, points, 0)
  /\ UNCHANGED << allocated, segVars >>

CubicSegment ==
  /\ allocated < MaxComponentSegs
  /\ LET this == bezier["CubicBezier"]
         s == CubicBezier_segment(this, allocated + 1)
     IN  /\ bezier' = [bezier EXCEPT !["CubicBezier"].segmentCache = Cached(s),
                                     !["CubicBezier"].lastSegment = s.id]
         /\ allocated' = IF s.id > allocated THEN s.id ELSE allocated
         /\ compCall' = CompCall("CubicBezier", "segment", << >>, s, this.lastSegment)
  /\ UNCHANGED segVars

QuadSegment ==
  /\ allocated < MaxComponentSegs
  /\ LET this == bezier["QuadBezier"]
         s == QuadBezier_segment(this, allocated + 1)
     IN  /\ bezier' = [bezier EXCEPT !["QuadBezier"].lastSegment = s.id]
         /\ allocated' = IF s.id > allocated THEN s.id ELSE allocated
         /\ compCall' = CompCall("QuadBezier", "segment", << >>, s, this.lastSegment)
  /\ UNCHANGED segVars

\* overlayInfo calls segment(), which caches what it returns.
CubicOverlayInfo(matrix) ==
  /\ allocated < MaxComponentSegs
  /\ LET this == bezier["CubicBezier"]
         s == CubicBezier_segment(this, allocated + 1)
     IN  /\ bezier' = [bezier EXCEPT !["CubicBezier"].segmentCache = Cached(s),
                                     !["CubicBezier"].lastSegment = s.id]
         /\ allocated' = IF s.id > allocated THEN s.id ELSE allocated
         /\ compCall' = CompCall("CubicBezier", "overlayInfo", matrix,
                                 CubicBezier_overlayInfo(this, matrix, allocated + 1),
                                 this.lastSegment)
  /\ UNCHANGED segVars

\* A cached overlay is returned without a call of segment().
QuadOverlayInfo(matrix) ==
  /\ allocated < MaxComponentSegs
  /\ LET this == bezier["QuadBezier"]
         r == QuadBezier_overlayInfo(this, matrix, allocated + 1)
     IN  /\ bezier' = [bezier EXCEPT
                         !["QuadBezier"].overlayCache = Cached(r),
                         !["QuadBezier"].lastSegment =
                            IF this.overlayCache.valid THEN @ ELSE allocated + 1]
         /\ allocated' = IF this.overlayCache.valid THEN allocated ELSE allocated + 1
         /\ compCall' = CompCall("QuadBezier", "overlayInfo", matrix, r, this.lastSegment)
  /\ UNCHANGED segVars

\* ---------------------------------------------------------- specifications
\* The segments alone: the components stay as constructed.
Init ==
  /\ SegInit
  /\ bezier = [c \in Comps |->
                 Component(IF c = "CubicBezier"
                             THEN << P(0, 0), P(3, 0), P(6, 0), P(9, 0) >>
                             ELSE << P(0, 0), P(4, 0), P(8, 0) >>)]
  /\ allocated = 0
  /\ compCall = CompCall("CubicBezier", "idle", << >>, << >>, 0)

Next ==
  \/ Return
  \/ \E i \in DOMAIN heap : CallArcLength(i)
  \/ \E i \in DOMAIN heap, t \in Params : CallEval(i, t)
  \/ \E i \in DOMAIN heap, t \in Params : CallTangent(i, t)
  \/ \E i \in DOMAIN heap, f \in Fractions : CallGetPoint(i, f)
  \/ \E i \in DOMAIN heap, m \in Matrices : CallTransformPoints(i, m)
  \/ \E i \in DOMAIN heap, t \in SplitParams : CallSplit(i, t)
  \/ \E r \in DrawRanges, move \in BOOLEAN : CallDraw(1, r[1], r[2], move)

Spec == Init /\ [][Next]_vars

\* The components alone: no caller holds a segment.
InitBezier ==
  /\ BezierInit
  /\ heap = << >>
  /\ lastCall = Idle

NextBezier ==
  \/ \E c \in Comps, points \in Configs : SetPoints(c, points)
  \/ CubicSegment
  \/ QuadSegment
  \/ \E m \in Matrices : CubicOverlayInfo(m)
  \/ \E m \in Matrices : QuadOverlayInfo(m)

SpecBezier == InitBezier /\ [][NextBezier]_vars

\* ------------------------------------------------------------------ claims
Receiver == heap[lastCall.this]
IsDraw == lastCall.op = "draw"
DrawStart == lastCall.args[1]
DrawEnd == lastCall.args[2]
DrawMove == lastCall.args[3]

\* The events of the last call with one of the given names, in order.
Events(names) == SelectSeq(lastCall.trace, LAMBDA e : e.op \in names)

\* The curve parameters the sampler gives for the two ends of a ranged draw.
StartParam == distanceToT(Receiver.pointSampler, Mul(Receiver.length, DrawStart))
EndParam == distanceToT(Receiver.pointSampler, Mul(Receiver.length, DrawEnd))

\* The control points handed to doDraw by the last draw call.
Emitted == Events({"doDraw"})[1].points

NoNaN(p) == ~IsNaN(p.x) /\ ~IsNaN(p.y)

\* C1: a draw over the full range (0, 1) calls neither split nor the sampler's
\* distanceToT, constructs no segment, emits the receiver's own control
\* points, and returns its first and last control points with tangent(0)
\* and tangent(1).
C1_FullDraw ==
  (IsDraw /\ DrawStart = Zero /\ DrawEnd = One) =>
    /\ Events({"split", "distanceToT"}) = << >>
    /\ lastCall.created = << >>
    /\ Events({"doDraw"}) = << [op |-> "doDraw", points |-> Receiver.points] >>
    /\ lastCall.result =
         << Receiver.points[1], tangent(Receiver, Zero),
            Receiver.points[Len(Receiver.points)], tangent(Receiver, One) >>

C1_Witness ==
  /\ IsDraw /\ DrawStart = Zero /\ DrawEnd = One
  /\ Len(Receiver.points) = 4
  /\ lastCall.result = << P(0, 0), P(1, 0), P(9, 0), P(1, 0) >>

\* C2: for 0 <= start <= end <= 1 other than (0, 1), draw splits exactly
\* twice: the receiver at startT, then the back half at
\* (endT - startT) / (1 - startT), which lies in [0, 1]; it emits the front
\* half of the second split, which starts at the curve's point at startT and
\* ends at the curve's point at endT.
C2_TwoSplits ==
  (IsDraw /\ Leq(Zero, DrawStart) /\ Leq(DrawStart, DrawEnd) /\ Leq(DrawEnd, One)
          /\ ~(DrawStart = Zero /\ DrawEnd = One)) =>
    LET rescaled == Div(Sub(EndParam, StartParam), Sub(One, StartParam))
        back == splitPoints(Receiver.points, StartParam)[2]
        front == splitPoints(back, rescaled)[1]
    IN  /\ Events({"split"}) =
             << [op |-> "split", points |-> Receiver.points, t |-> StartParam],
                [op |-> "split", points |-> back, t |-> rescaled] >>
        /\ InUnit(rescaled)
        /\ Emitted = front
        /\ Emitted[1] = curveEval(Receiver.curve, StartParam)
        /\ Emitted[Len(Emitted)] = curveEval(Receiver.curve, EndParam)

\* C3 (for the draws whose rescaling is defined, startT < 1): the tuple draw
\* returns holds the first control point of the emitted curve, the tangent of
\* the receiver at the parameter where the range begins, the last control
\* point of the emitted curve, and the tangent of the receiver at the
\* parameter where the range ends, distanceToT(length * end).
C3_Tuple ==
  (IsDraw /\ needsTrim(DrawStart, DrawEnd) /\ Less(StartParam, One)) =>
    /\ lastCall.result[1] = Emitted[1]
    /\ lastCall.result[2] = tangent(Receiver, StartParam)
    /\ lastCall.result[3] = Emitted[Len(Emitted)]
    /\ lastCall.result[4] = tangent(Receiver, EndParam)

\* C4: draw and getPoint never compute with an undefined value: every
\* parameter draw passes to split is a number in [0, 1], and the points draw
\* and getPoint return are numbers.
C4_Defined ==
  /\ IsDraw =>
       /\ \A k \in DOMAIN lastCall.trace :
            lastCall.trace[k].op = "split" => InUnit(lastCall.trace[k].t)
       /\ NoNaN(lastCall.result[1]) /\ NoNaN(lastCall.result[3])
  /\ lastCall.op = "getPoint" => NoNaN(lastCall.result.position)

\* C5: getPoint(f) is the sampler's pointAtDistance(f * length), position and
\* tangent unchanged; getPoint(0) is at eval(0) and getPoint(1) at eval(1).
C5_GetPoint ==
  lastCall.op = "getPoint" =>
    LET f == lastCall.args[1]
        q == pointAtDistance(Receiver.pointSampler, Mul(Receiver.length, f))
    IN  /\ lastCall.result = [position |-> q.position, tangent |-> q.tangent]
        /\ Events({"pointAtDistance"}) =
             << [op |-> "pointAtDistance", sampler |-> Receiver.pointSampler,
                 d |-> Mul(Receiver.length, f)] >>
        /\ f = Zero => lastCall.result.position = eval(Receiver, Zero).position
        /\ f = One => lastCall.result.position = eval(Receiver, One).position

C5_Witness ==
  /\ lastCall.op = "getPoint" /\ lastCall.args[1] = One
  /\ Receiver.points = << P(0, 0), P(6, 0), P(-4, 0) >>
  /\ lastCall.result.position = P(-4, 0)

\* C6: for t strictly between 0 and 1, split(t) returns halves that start and
\* end where the receiver does and meet at the receiver's point at t.
C6_Split ==
  (lastCall.op = "split" /\ Less(Zero, lastCall.args[1]) /\ Less(lastCall.args[1], One)) =>
    LET t == lastCall.args[1]
        left == lastCall.result[1]
        right == lastCall.result[2]
    IN  /\ eval(left, Zero).position = eval(Receiver, Zero).position
        /\ eval(left, One).position = eval(right, Zero).position
        /\ eval(right, Zero).position = eval(Receiver, t).position
        /\ eval(right, One).position = eval(Receiver, One).position

C6_Witness ==
  /\ lastCall.op = "split" /\ lastCall.args[1] = R(1, 4)
  /\ Receiver.points = << P(0, 2), P(6, 2), P(6, 2), P(0, 2) >>
  /\ eval(lastCall.result[1], One).position = Vec(R(27, 8), R(2, 1))

\* The segments of the state: those the caller holds and those the last call built.
Segments == { heap[i] : i \in DOMAIN heap } \cup
            { lastCall.created[k] : k \in DOMAIN lastCall.created }

\* Every segment has the sampler its constructor made, and the sampler
\* queries of the last call went to the receiver's sampler.
C7_Attached ==
  /\ \A s \in Segments : s.pointSampler = UniformPolynomialCurveSampler(s.curve)
  /\ \A k \in DOMAIN lastCall.trace :
       lastCall.trace[k].op \in {"distanceToT", "pointAtDistance"} =>
         lastCall.trace[k].sampler = Receiver.pointSampler

\* C7 (amended): the sampler is attached in the constructor: every segment,
\* the ones draw builds through split included, has its sampler before any
\* distance-based query, every query uses it, and no call replaces it.
C7_Eager ==
  /\ [] C7_Attached
  /\ [][\A i \in DOMAIN heap : heap'[i].pointSampler = heap[i].pointSampler]_vars

C7_Witness ==
  /\ IsDraw /\ Len(lastCall.created) = 4
  /\ Events({"distanceToT"}) # << >>
  /\ \A k \in 1..4 : lastCall.created[k].pointSampler # NoSampler

\* C7 (as claimed): a segment that has served no distance-based query, as one
\* that the last call has just constructed, has no sampler.
C7_Lazy ==
  \A k \in DOMAIN lastCall.created : lastCall.created[k].pointSampler = NoSampler

\* C8: no call changes a segment: control points, curve, length (and sampler)
\* stay as constructed, arcLength is the length, and transformPoints returns
\* the transformed control points, one per point and in their order.
C8_Immutable ==
  [][ /\ \A i \in DOMAIN heap : i \in DOMAIN heap' /\ heap'[i] = heap[i]
      /\ \A i \in DOMAIN heap' :
           /\ heap'[i].curve = Polynomial2D(heap'[i].points)
           /\ heap'[i].length = sampledLength(heap'[i].curve)
      /\ lastCall'.op = "arcLength" => lastCall'.result = heap[lastCall'.this].length
      /\ lastCall'.op = "transformPoints" =>
           LET pts == heap[lastCall'.this].points
           IN  /\ Len(lastCall'.result) = Len(pts)
               /\ \A k \in 1..Len(pts) :
                    lastCall'.result[k] = transformAsPoint(pts[k], lastCall'.args[1])
    ]_vars

C8_Witness ==
  /\ lastCall.op = "transformPoints" /\ lastCall.args[1] = Mat(2, 0, 0, 3, 1, -1)
  /\ Len(heap) = 3
  /\ Receiver.points = << P(0, 0), P(6, 0), P(-4, 0) >>
  /\ lastCall.result[3] = P(-7, -1)

\* C9: draw issues a move-to exactly when move is set, once, before the curve
\* and to the first control point of the curve it then emits; the curve is
\* emitted exactly once, and it is the last thing draw does.
C9_Move ==
  IsDraw =>
    LET drawn == IF needsTrim(DrawStart, DrawEnd)
                   THEN lastCall.created[3].points ELSE Receiver.points
    IN  /\ Events({"moveTo", "doDraw"}) =
             (IF DrawMove THEN << [op |-> "moveTo", p |-> drawn[1]] >> ELSE << >>)
               \o << [op |-> "doDraw", points |-> drawn] >>
        /\ lastCall.trace[Len(lastCall.trace)].op = "doDraw"

C9_Witness ==
  /\ IsDraw /\ DrawMove /\ DrawStart = R(1, 4) /\ DrawEnd = R(3, 4)
  /\ Receiver.points = << P(0, 0), P(4, 0), P(8, 0) >>
  /\ Events({"moveTo"}) = << [op |-> "moveTo", p |-> P(2, 0)] >>

\* C10: a component constructs a segment only when its points change:
\* segment() returns the segment of the previous call while the points are
\* the same, built from the current points; overlayInfo(matrix) is computed
\* with the matrix of the call.
C10_Cached ==
  LET this == bezier[compCall.comp]
      fresh == transformPoints(BezierSegment(this.points), compCall.matrix)
  IN  /\ compCall.op = "segment" =>
           /\ compCall.result.segment = BezierSegment(this.points)
           /\ compCall.prev # 0 => compCall.result.id = compCall.prev
      /\ compCall.op = "overlayInfo" =>
           compCall.result = IF compCall.comp = "CubicBezier"
                               THEN cubicOverlay(fresh) ELSE quadOverlay(fresh)

====
